---- MODULE Spec2Model ----
(***************************************************************************)
(* Model of src/installers/helm.ts (class HelmHelper): the Listr pipeline  *)
(* built by startTasks and the recovery logic of upgradeCheHelmChart.      *)
(* External commands (execa), the Kubernetes lookups and the ncp copy are  *)
(* the environment: their results are chosen nondeterministically.         *)
(***************************************************************************)
EXTENDS Integers, Sequences, FiniteSets, TLC

\* Largest revision number a release history holds (and so its largest length).
MaxRevision == 3

VARIABLES
  flags,        \* the parsed CLI flags (tls, multiuser, chenamespace, domain)
  cluster,      \* the provisioned resources that exist on the cluster
  ctx,          \* the Listr context shared by the tasks (ctx.tlsEmail)
  step,         \* index in Titles of the task Listr runs next
  state,        \* per task: "pending", "skipped", "running", "completed", "failed"
  found,        \* result of the running task's existence check: "none", "yes", "no"
  pc,           \* position inside upgradeCheHelmChart
  log,          \* every external command issued so far, with its result
  command,      \* upgradeCheHelmChart: the composed upgrade command
  stderr,       \* upgradeCheHelmChart: stderr of the first attempt
  jsonOutput,   \* upgradeCheHelmChart: the parsed history
  revision,     \* upgradeCheHelmChart: jsonOutput[0].revision
  error,        \* the error that rejected the pipeline, if any
  copy,         \* the ncp copy: "idle", "running", "done", "error"
  copyEndedAt,  \* Len(log) when ncp called its callback (-1 before)
  uncaught,     \* an exception escaped an I/O callback: the process is gone
  peer          \* another invocation of the pipeline on the same cluster

vars == <<flags, cluster, ctx, step, state, found, pc, log, command, stderr,
          jsonOutput, revision, error, copy, copyEndedAt, uncaught, peer>>

-----------------------------------------------------------------------------
\* JavaScript values

\* undefined; a template literal renders it as the text "undefined".
Undefined == "undefined"

NoRevision == [type |-> "undefined", n |-> 0]
StringRevision(k) == [type |-> "string", n |-> k]
NumberRevision(k) == [type |-> "number", n |-> k]

-----------------------------------------------------------------------------
\* The tasks of startTasks, in declared order.

Titles == << "Verify if helm is installed",
             "Check for TLS secret prerequisites",
             "Check for cert-manager",
             "Create Tiller Role Binding",
             "Create Tiller Service Account",
             "Create Tiller RBAC",
             "Create Tiller Service",
             "Preparing Che Helm Chart",
             "Updating Helm Chart dependencies",
             "Deploying Che Helm Chart" >>

IndexOf(title) == CHOOSE i \in DOMAIN Titles : Titles[i] = title

\* Every task enabled, whatever the flags.
EnabledAlways(title) == TRUE

\* enabled: () => flags.tls on the two TLS tasks; every other task has no
\* enabled predicate and always runs.
Enabled(title) ==
  IF title \in {"Check for TLS secret prerequisites", "Check for cert-manager"}
  THEN flags.tls
  ELSE TRUE

\* The resource each check-then-create task provisions.
ResourceTitles == {"Create Tiller Role Binding", "Create Tiller Service Account",
                   "Create Tiller Service"}

ResourceOf(title) ==
  CASE title = "Create Tiller Role Binding" -> "clusterrolebinding/add-on-cluster-admin"
    [] title = "Create Tiller Service Account" -> "serviceaccounts/tiller"
    [] title = "Create Tiller Service" -> "services/tiller-deploy"

Resources == {ResourceOf(t) : t \in ResourceTitles}

-----------------------------------------------------------------------------
\* execa: the result of one external command.  With a timeout the child is
\* killed and its exit code is not 0.

Ok == [code |-> 0, timedOut |-> FALSE]
ExitNonZero == [code |-> 1, timedOut |-> FALSE]
TimedOut == [code |-> -1, timedOut |-> TRUE]

Results == {Ok, ExitNonZero, TimedOut}

\* execa rejects its promise on a failed or timed out command unless the
\* call passes reject: false.
Rejects(reject, res) == reject /\ (res.code # 0 \/ res.timedOut)

\* What the command wrote to stderr: nothing on success, its own complaint
\* otherwise.
StderrOf(cmd, res) == IF res.code = 0 THEN "" ELSE cmd.kind

Cmd(kind, name) ==
  [kind |-> kind, name |-> name, revision |-> NoRevision, namespace |-> "",
   setOptions |-> <<>>, multiUserFlag |-> "", tlsFlag |-> "", image |-> "",
   registries |-> <<>>, destDir |-> ""]

NoCommand == Cmd("", "")

\* Output that is no JSON document (the commands whose output nobody reads).
NoOutput == [wellFormed |-> FALSE, value |-> [type |-> "null", items |-> <<>>]]

IssueWithOutput(cmd, res, stdout) ==
  Append(log, [cmd |-> cmd, res |-> res, stdout |-> stdout])

Issue(cmd, res) == IssueWithOutput(cmd, res, NoOutput)

-----------------------------------------------------------------------------
\* Errors thrown by the tasks.

Error(kind, cmd, text) == [kind |-> kind, command |-> cmd, stderr |-> text]

NoError == Error("", NoCommand, "")

CommandFailed(cmd, res) ==
  Error(IF res.timedOut THEN "E_TIMEOUT" ELSE "E_COMMAND_FAILED", cmd, StderrOf(cmd, res))

-----------------------------------------------------------------------------
\* Listr: tasks run one after the other; a task whose enabled predicate is
\* false is skipped; the first task that throws rejects the whole run.

Running == ~uncaught /\ error = NoError /\ step <= Len(Titles)

At(title) == Running /\ Titles[step] = title /\ Enabled(title)

Complete ==
  /\ state' = [state EXCEPT ![step] = "completed"]
  /\ step' = step + 1
  /\ error' = error

\* A failed task after which Listr goes on with the next one.
FailAndContinue(err) ==
  /\ state' = [state EXCEPT ![step] = "failed"]
  /\ step' = step + 1
  /\ error' = error

Fail(err) ==
  /\ state' = [state EXCEPT ![step] = "failed"]
  /\ step' = step
  /\ error' = err

Skip ==
  /\ Running
  /\ ~Enabled(Titles[step])
  /\ state' = [state EXCEPT ![step] = "skipped"]
  /\ step' = step + 1
  /\ UNCHANGED <<flags, cluster, ctx, found, pc, log, command, stderr, jsonOutput,
                 revision, error, copy, copyEndedAt, uncaught, peer>>

-----------------------------------------------------------------------------
\* Prerequisite tasks

Emails == {"my@email-address.com", "admin@example.org"}

VerifyHelm ==
  /\ At("Verify if helm is installed")
  /\ \E installed \in BOOLEAN :
       IF installed THEN Complete
       ELSE Fail(Error("E_REQUISITE_NOT_FOUND", NoCommand, ""))
  /\ UNCHANGED <<flags, cluster, ctx, found, pc, log, command, stderr, jsonOutput,
                 revision, copy, copyEndedAt, uncaught, peer>>

\* A lookup through KubeHelper (secretExist, getSecret, apiVersionExist), as
\* it is logged: res is Ok when the lookup found what it asked for.
Lookup(kind, name, hit) ==
  [cmd |-> Cmd(kind, name), res |-> IF hit THEN Ok ELSE ExitNonZero,
   stdout |-> NoOutput]

CheckTlsSecret ==
  /\ At("Check for TLS secret prerequisites")
  /\ \E exists \in BOOLEAN, tlsEmail \in Emails \cup {Undefined} :
       IF ~exists
       THEN /\ Fail(Error("che-tls secret does not exist", NoCommand, ""))
            /\ ctx' = ctx
            /\ log' = Append(log, Lookup("kh.secretExist", "che-tls", FALSE))
       ELSE /\ log' = Append(Append(log, Lookup("kh.secretExist", "che-tls", TRUE)),
                             Lookup("kh.getSecret", "che-tls", tlsEmail # Undefined))
            /\ IF tlsEmail = Undefined
               THEN Fail(Error("no ACME_EMAIL field", NoCommand, "")) /\ ctx' = ctx
               ELSE Complete /\ ctx' = [ctx EXCEPT !.tlsEmail = tlsEmail]
  /\ UNCHANGED <<flags, cluster, found, pc, command, stderr, jsonOutput,
                 revision, copy, copyEndedAt, uncaught, peer>>

CheckCertManager ==
  /\ At("Check for cert-manager")
  /\ \E exists \in BOOLEAN :
       /\ log' = Append(log, Lookup("kh.apiVersionExist", "certmanager.k8s.io", exists))
       /\ IF exists THEN Complete
          ELSE Fail(Error("cert-manager API has not been found", NoCommand, ""))
  /\ UNCHANGED <<flags, cluster, ctx, found, pc, command, stderr, jsonOutput,
                 revision, copy, copyEndedAt, uncaught, peer>>

-----------------------------------------------------------------------------
\* Check-then-create provisioning

\* A get that asks for a name the cluster never holds.
KubectlGetNotFound(resource) == ExitNonZero

\* kubectl get exits 0 when the resource exists.
KubectlGet(resource) == IF resource \in cluster THEN Ok ELSE ExitNonZero

\* The check with its result inverted.
ExistInverted(res) == res.code # 0

\* The check that only takes a time-out for absence.
ExistUnlessTimedOut(res) == ~res.timedOut

\* tillerRoleBindingExist, tillerServiceAccountExist, tillerServiceExist
Exist(res) == res.code = 0

CreateCommand(title) ==
  IF title = "Create Tiller Service"
  THEN Cmd("helm init", ResourceOf(title))
  ELSE Cmd("kubectl create", ResourceOf(title))

ResourceExist ==
  \E title \in ResourceTitles :
    /\ At(title)
    /\ found = "none"
    /\ LET res == KubectlGet(ResourceOf(title)) IN
         /\ log' = Issue(Cmd("kubectl get", ResourceOf(title)), res)
         /\ IF Exist(res)
            THEN Complete /\ found' = "none"
            ELSE found' = "no" /\ UNCHANGED <<state, step, error>>
    /\ UNCHANGED <<flags, cluster, ctx, pc, command, stderr, jsonOutput,
                   revision, copy, copyEndedAt, uncaught, peer>>

\* A create command on a resource that exists fails; one that times out may
\* or may not have created the resource.
ResourceCreate ==
  \E title \in ResourceTitles :
    /\ At(title)
    /\ found = "no"
    /\ \E res \in Results, created \in BOOLEAN :
         /\ ResourceOf(title) \in cluster => res.code # 0
         /\ created \in (IF res.code = 0 THEN {TRUE}
                         ELSE IF res.timedOut THEN BOOLEAN ELSE {FALSE})
         /\ log' = Issue(CreateCommand(title), res)
         /\ cluster' = IF created THEN cluster \cup {ResourceOf(title)} ELSE cluster
         /\ IF Rejects(TRUE, res) THEN Fail(CommandFailed(CreateCommand(title), res))
            ELSE Complete
    /\ found' = "none"
    /\ UNCHANGED <<flags, ctx, pc, command, stderr, jsonOutput,
                   revision, copy, copyEndedAt, uncaught, peer>>

CreateTillerRBAC ==
  /\ At("Create Tiller RBAC")
  /\ \E res \in Results :
       LET cmd == Cmd("kubectl apply", "tiller-rbac.yaml") IN
         /\ log' = Issue(cmd, res)
         /\ IF Rejects(TRUE, res) THEN Fail(CommandFailed(cmd, res)) ELSE Complete
  /\ UNCHANGED <<flags, cluster, ctx, found, pc, command, stderr, jsonOutput,
                 revision, copy, copyEndedAt, uncaught, peer>>

-----------------------------------------------------------------------------
\* Chart staging

DestDir == "cacheDir/templates/kubernetes/helm/che/"

\* prepareCheHelmChart: mkdirp is awaited.  ncp takes a callback and returns
\* nothing, so `await ncp(...)` resumes at once: the task completes while the
\* copy has only been started.
PrepareCheHelmChart ==
  /\ At("Preparing Che Helm Chart")
  /\ \E made \in BOOLEAN :
       IF made
       THEN Complete /\ copy' = "running"
       ELSE Fail(Error("mkdirp", NoCommand, "")) /\ copy' = copy
  /\ UNCHANGED <<flags, cluster, ctx, found, pc, log, command, stderr, jsonOutput,
                 revision, copyEndedAt, uncaught, peer>>

\* The copy ends and ncp calls (err) => { if (err) { throw err } } from an I/O
\* callback: the throw reaches no promise, it is an uncaught exception.
NcpCallback ==
  /\ copy = "running"
  /\ ~uncaught
  /\ \E err \in BOOLEAN :
       /\ copy' = IF err THEN "error" ELSE "done"
       /\ uncaught' = err
  /\ copyEndedAt' = Len(log)
  /\ UNCHANGED <<flags, cluster, ctx, step, state, found, pc, log, command, stderr,
                 jsonOutput, revision, error, peer>>

UpdateCheHelmChartDependencies ==
  /\ At("Updating Helm Chart dependencies")
  /\ \E res \in Results :
       LET cmd == [Cmd("helm dependencies update", "") EXCEPT !.destDir = DestDir] IN
         /\ log' = Issue(cmd, res)
         /\ IF Rejects(TRUE, res) THEN Fail(CommandFailed(cmd, res)) ELSE Complete
  /\ UNCHANGED <<flags, cluster, ctx, found, pc, command, stderr, jsonOutput,
                 revision, copy, copyEndedAt, uncaught, peer>>

-----------------------------------------------------------------------------
\* upgradeCheHelmChart

\* The command with the TLS e-mail read from the flags, which hold none.
UpgradeCommandEmailFromFlags(fl, cx) ==
  [kind |-> "helm upgrade --install", name |-> "che", revision |-> NoRevision,
   namespace |-> fl.chenamespace,
   setOptions |-> IF fl.tls THEN <<fl.domain, Undefined>> ELSE <<>>,
   multiUserFlag |-> IF fl.multiuser THEN "values/multi-user.yaml" ELSE "",
   tlsFlag |-> IF fl.tls THEN "values/tls.yaml" ELSE "",
   image |-> fl.cheimage,
   registries |-> <<fl.devfileRegistryUrl, fl.pluginRegistryUrl>>,
   destDir |-> DestDir]

\* The command with the TLS values file tied to the multi-user flag.
UpgradeCommandTlsFileWithMultiuser(fl, cx) ==
  [kind |-> "helm upgrade --install", name |-> "che", revision |-> NoRevision,
   namespace |-> fl.chenamespace,
   setOptions |-> IF fl.tls THEN <<fl.domain, cx.tlsEmail>> ELSE <<>>,
   multiUserFlag |-> IF fl.multiuser THEN "values/multi-user.yaml" ELSE "",
   tlsFlag |-> IF fl.multiuser THEN "values/tls.yaml" ELSE "",
   image |-> fl.cheimage,
   registries |-> <<fl.devfileRegistryUrl, fl.pluginRegistryUrl>>,
   destDir |-> DestDir]

\* The command of line 209.
UpgradeCommand(fl, cx) ==
  [kind |-> "helm upgrade --install", name |-> "che", revision |-> NoRevision,
   namespace |-> fl.chenamespace,
   setOptions |-> IF fl.tls THEN <<fl.domain, cx.tlsEmail>> ELSE <<>>,
   multiUserFlag |-> IF fl.multiuser THEN "values/multi-user.yaml" ELSE "",
   tlsFlag |-> IF fl.tls THEN "values/tls.yaml" ELSE "",
   image |-> fl.cheimage,
   registries |-> <<fl.devfileRegistryUrl, fl.pluginRegistryUrl>>,
   destDir |-> DestDir]

HistoryCommand(name) == Cmd("helm history --output json", name)

RollbackCommand(name, rev) == [Cmd("helm rollback", name) EXCEPT !.revision = rev]

PurgeCommand(name) == Cmd("helm delete --purge", name)

\* The documents helm history can print: text that is no JSON, null, and
\* arrays of entries, most recent first, with consecutive revisions.
JsonNull == [type |-> "null", items |-> <<>>]
JsonArray(items) == [type |-> "array", items |-> items]
SyntaxError == [type |-> "SyntaxError", items |-> <<>>]
NullEntry == [type |-> "null", revision |-> NoRevision]
Entry(rev) == [type |-> "object", revision |-> rev]

History(latest, len, type) ==
  [i \in 1..len |-> Entry([type |-> type, n |-> latest - i + 1])]

Histories ==
  UNION {{History(n, len, "string"), History(n, len, "number")} :
           <<n, len>> \in {x \in (1..MaxRevision) \X (1..MaxRevision) : x[2] <= x[1]}}

Stdouts ==
  {NoOutput}
  \cup {[wellFormed |-> TRUE, value |-> v] :
          v \in {JsonNull, JsonArray(<<>>), JsonArray(<<NullEntry>>),
                 JsonArray(<<Entry(NoRevision)>>)}
                \cup {JsonArray(h) : h \in Histories}}

\* Unparsable output read as an empty history.
JSONParseLenient(text) == IF text.wellFormed THEN text.value ELSE JsonArray(<<>>)

\* JSON.parse
JSONParse(text) == IF text.wellFormed THEN text.value ELSE SyntaxError

\* Line 227, jsonOutput[0].revision, throws a TypeError when jsonOutput is
\* null or jsonOutput[0] is undefined or null.
RevisionThrows(json) ==
  \/ json.type = "null"
  \/ Len(json.items) = 0
  \/ json.items[1].type = "null"

\* The revision read from the oldest entry.
RevisionOfOldest(json) == json.items[Len(json.items)].revision

Revision(json) == json.items[1].revision

\* The comparison done against the number 1.
IsFirstRevisionNumber(json, rev) == Len(json.items) > 0 /\ rev = NumberRevision(1)

\* Line 228
IsFirstRevision(json, rev) == Len(json.items) > 0 /\ rev = StringRevision(1)

\* pc is where upgradeCheHelmChart stands: before one of its awaited commands
\* ("attempt", "history", "purge", "rollback", "retry") or over ("returned",
\* "threw").

Return == pc' = "returned" /\ Complete

Throw(err) == pc' = "threw" /\ Fail(err)

\* Every result of the first attempt taken for a failure.
AttemptFailedAlways(res) == TRUE

\* Line 214
AttemptFailed(res) == res.code # 0

\* Lines 193-214: compose the command and run it with reject: false.
UpgradeAttempt ==
  /\ At("Deploying Che Helm Chart")
  /\ pc = "attempt"
  /\ command' = UpgradeCommand(flags, ctx)
  /\ \E res \in Results :
       /\ log' = Issue(command', res)
       /\ stderr' = StderrOf(command', res)
       /\ IF AttemptFailed(res)
          THEN pc' = "history" /\ UNCHANGED <<state, step, error>>
          ELSE Return
  /\ UNCHANGED <<flags, cluster, ctx, found, jsonOutput, revision, copy, copyEndedAt,
                 uncaught, peer>>

\* The error built from the history query and its own stderr.
HistoryQueryErrorOwnStderr ==
  Error("Unable to execute helm command", HistoryCommand(flags.chenamespace),
        "helm history --output json")

\* Line 219
HistoryQueryError == Error("Unable to execute helm command", command, stderr)

\* Line 225
HistoryParseError == Error("Unable to grab helm history:", NoCommand, "")

\* Lines 228-233: the command awaited next.
Recovery(json, rev) == IF IsFirstRevision(json, rev) THEN "purge" ELSE "rollback"

\* Lines 217-228: the history query, again with reject: false, the parse of
\* its output and the choice between purge and rollback.
HistoryQuery ==
  /\ At("Deploying Che Helm Chart")
  /\ pc = "history"
  /\ \E res \in Results, stdout \in Stdouts :
       /\ log' = IssueWithOutput(HistoryCommand(flags.chenamespace), res, stdout)
       /\ IF res.code # 0
          THEN Throw(HistoryQueryError) /\ UNCHANGED <<jsonOutput, revision>>
          ELSE IF JSONParse(stdout) = SyntaxError
          THEN Throw(HistoryParseError) /\ UNCHANGED <<jsonOutput, revision>>
          ELSE /\ jsonOutput' = JSONParse(stdout)
               /\ IF RevisionThrows(jsonOutput')
                  THEN Throw(Error("TypeError", NoCommand, "")) /\ revision' = revision
                  ELSE /\ revision' = Revision(jsonOutput')
                       /\ pc' = Recovery(jsonOutput', revision')
                       /\ UNCHANGED <<state, step, error>>
  /\ UNCHANGED <<flags, cluster, ctx, found, command, stderr, copy, copyEndedAt,
                 uncaught, peer>>

\* purgeHelmChart without reject: false.
PurgeRejectsByDefault == TRUE

\* purgeHelmChart passes reject: false.
PurgeRejects == FALSE

\* Line 229 and purgeHelmChart
PurgeHelmChart ==
  /\ At("Deploying Che Helm Chart")
  /\ pc = "purge"
  /\ \E res \in Results :
       LET cmd == PurgeCommand(flags.chenamespace) IN
         /\ log' = Issue(cmd, res)
         /\ IF Rejects(PurgeRejects, res)
            THEN Throw(CommandFailed(cmd, res))
            ELSE pc' = "retry" /\ UNCHANGED <<state, step, error>>
  /\ UNCHANGED <<flags, cluster, ctx, found, command, stderr, jsonOutput, revision,
                 copy, copyEndedAt, uncaught, peer>>

\* Line 231 passes no reject option.
RollbackRejects == TRUE

\* Line 231
Rollback ==
  /\ At("Deploying Che Helm Chart")
  /\ pc = "rollback"
  /\ \E res \in Results :
       LET cmd == RollbackCommand(flags.chenamespace, revision) IN
         /\ log' = Issue(cmd, res)
         /\ IF Rejects(RollbackRejects, res)
            THEN Throw(CommandFailed(cmd, res))
            ELSE pc' = "retry" /\ UNCHANGED <<state, step, error>>
  /\ UNCHANGED <<flags, cluster, ctx, found, command, stderr, jsonOutput, revision,
                 copy, copyEndedAt, uncaught, peer>>

\* Line 234 runs `command` again.
RetryCommand == command

\* A failed retry that starts a second recovery cycle.
AfterRetryFailureRecoverAgain(cmd, res) ==
  pc' = "history" /\ UNCHANGED <<state, step, error>>

\* Line 234: where a failed retry leads.
AfterRetryFailure(cmd, res) == Throw(CommandFailed(cmd, res))

\* Line 234
Retry ==
  /\ At("Deploying Che Helm Chart")
  /\ pc = "retry"
  /\ \E res \in Results :
       /\ log' = Issue(RetryCommand, res)
       /\ IF Rejects(TRUE, res)
          THEN AfterRetryFailure(RetryCommand, res)
          ELSE Return
  /\ UNCHANGED <<flags, cluster, ctx, found, command, stderr, jsonOutput, revision,
                 copy, copyEndedAt, uncaught, peer>>

-----------------------------------------------------------------------------

Namespaces == {"che", "eclipse-che"}

Flags ==
  [tls : BOOLEAN, multiuser : BOOLEAN, chenamespace : Namespaces,
   domain : {"192.168.99.100.nip.io"}, cheimage : {"eclipse/che-server:nightly"},
   devfileRegistryUrl : {"https://che-devfile-registry.openshift.io/"},
   pluginRegistryUrl : {"https://che-plugin-registry.openshift.io"}]

\* The state at the call of startTasks(flags, command).run().
InitRun ==
  /\ flags \in Flags
  /\ cluster \in SUBSET Resources
  /\ ctx = [tlsEmail |-> Undefined]
  /\ step = 1
  /\ state = [i \in DOMAIN Titles |-> "pending"]
  /\ found = "none"
  /\ pc = "attempt"
  /\ log = <<>>
  /\ command = NoCommand
  /\ stderr = ""
  /\ jsonOutput = JsonNull
  /\ revision = NoRevision
  /\ error = NoError
  /\ copy = "idle"
  /\ copyEndedAt = -1
  /\ uncaught = FALSE

\* One invocation alone.
NoPeer == [active |-> FALSE, step |-> 1, found |-> "none", failed |-> FALSE, log |-> <<>>]

Init == InitRun /\ peer = NoPeer

Next ==
  \/ Skip
  \/ VerifyHelm
  \/ CheckTlsSecret
  \/ CheckCertManager
  \/ ResourceExist
  \/ ResourceCreate
  \/ CreateTillerRBAC
  \/ PrepareCheHelmChart
  \/ NcpCallback
  \/ UpdateCheHelmChartDependencies
  \/ UpgradeAttempt
  \/ HistoryQuery
  \/ PurgeHelmChart
  \/ Rollback
  \/ Retry

Spec == Init /\ [][Next]_vars

-----------------------------------------------------------------------------
\* A second invocation of the same pipeline against the same cluster.  Only
\* its check-then-create tasks touch the modelled cluster; its other tasks
\* complete or fail.  Its log also records whether the resource existed when
\* the command was issued.

StartedPeer == [NoPeer EXCEPT !.active = TRUE]

PeerRunning == peer.active /\ ~peer.failed /\ peer.step <= Len(Titles)

PeerOver == ~PeerRunning

PeerIssue(cmd, res, resource) ==
  Append(peer.log, [cmd |-> cmd, res |-> res, existed |-> resource \in cluster])

PeerFrame ==
  UNCHANGED <<flags, ctx, step, state, found, pc, log, command, stderr, jsonOutput,
              revision, error, copy, copyEndedAt, uncaught>>

PeerTask ==
  /\ PeerRunning
  /\ Titles[peer.step] \notin ResourceTitles
  /\ \E ok \in BOOLEAN :
       peer' = IF ok THEN [peer EXCEPT !.step = @ + 1] ELSE [peer EXCEPT !.failed = TRUE]
  /\ cluster' = cluster
  /\ PeerFrame

PeerResourceExist ==
  \E title \in ResourceTitles :
    /\ PeerRunning
    /\ Titles[peer.step] = title
    /\ peer.found = "none"
    /\ LET res == KubectlGet(ResourceOf(title))
           entries == PeerIssue(Cmd("kubectl get", ResourceOf(title)), res, ResourceOf(title))
       IN peer' = IF Exist(res)
                  THEN [peer EXCEPT !.log = entries, !.step = @ + 1]
                  ELSE [peer EXCEPT !.log = entries, !.found = "no"]
    /\ cluster' = cluster
    /\ PeerFrame

PeerResourceCreate ==
  \E title \in ResourceTitles :
    /\ PeerRunning
    /\ Titles[peer.step] = title
    /\ peer.found = "no"
    /\ \E res \in Results, created \in BOOLEAN :
         /\ ResourceOf(title) \in cluster => res.code # 0
         /\ created \in (IF res.code = 0 THEN {TRUE}
                         ELSE IF res.timedOut THEN BOOLEAN ELSE {FALSE})
         /\ cluster' = IF created THEN cluster \cup {ResourceOf(title)} ELSE cluster
         /\ LET entries == PeerIssue(CreateCommand(title), res, ResourceOf(title)) IN
              peer' = IF Rejects(TRUE, res)
                      THEN [peer EXCEPT !.log = entries, !.found = "none", !.failed = TRUE]
                      ELSE [peer EXCEPT !.log = entries, !.found = "none", !.step = @ + 1]
    /\ PeerFrame

PeerNext == PeerTask \/ PeerResourceExist \/ PeerResourceCreate

\* The tasks of an invocation up to the last provisioning task.
ProvisionNext ==
  \/ Skip
  \/ VerifyHelm
  \/ CheckTlsSecret
  \/ CheckCertManager
  \/ ResourceExist
  \/ ResourceCreate
  \/ CreateTillerRBAC

\* Two invocations one after the other: the second starts when the first is
\* over, completed or aborted.
RerunInit == InitRun /\ peer = StartedPeer

RerunNext == PeerNext \/ (PeerOver /\ ProvisionNext)

RerunSpec == RerunInit /\ [][RerunNext]_vars

\* One invocation alone, or two invocations interleaved.
ConcurrentInit == InitRun /\ peer \in {NoPeer, StartedPeer}

ConcurrentNext == PeerNext \/ ProvisionNext

ConcurrentSpec == ConcurrentInit /\ [][ConcurrentNext]_vars

-----------------------------------------------------------------------------
\* Reading the log of issued commands

Issued(kind) == {i \in DOMAIN log : log[i].cmd.kind = kind}

Upgrades == Issued("helm upgrade --install")
HistoryQueries == Issued("helm history --output json")
Purges == Issued("helm delete --purge")
Rollbacks == Issued("helm rollback")
DependencyUpdates == Issued("helm dependencies update")

First(S) == CHOOSE i \in S : \A j \in S : i <= j
Last(S) == CHOOSE i \in S : \A j \in S : j <= i

Deploy == IndexOf("Deploying Che Helm Chart")
Prepare == IndexOf("Preparing Che Helm Chart")

FirstAttemptFailed == Upgrades # {} /\ log[First(Upgrades)].res.code # 0

\* The history query ran, exited 0 and its output was parsed into json.
HistoryParsedTo(json) ==
  /\ FirstAttemptFailed
  /\ \E h \in HistoryQueries :
       /\ log[h].res.code = 0
       /\ log[h].stdout.wellFormed
       /\ log[h].stdout.value = json
  /\ pc # "history"

\* The recovery action is over: a purge ran (its result is ignored) or a
\* rollback succeeded.
Recovered ==
  \E i \in Purges \cup Rollbacks : i \in Purges \/ log[i].res.code = 0

-----------------------------------------------------------------------------
\* C1: once the first upgrade has failed and the recovery action is over, the
\* same upgrade command is issued once more, right after the recovery command;
\* a failed retry ends upgradeCheHelmChart with that failure and is the last
\* command of the run.  No run issues more than two upgrade commands or more
\* than one history query.
C1_RetryExactlyOnce ==
  /\ Cardinality(Upgrades) <= 2
  /\ Cardinality(HistoryQueries) <= 1
  /\ Cardinality(Purges \cup Rollbacks) <= 1
  /\ (Recovered /\ pc \in {"returned", "threw"}) =>
       /\ Cardinality(Upgrades) = 2
       /\ Last(Upgrades) = Last(Purges \cup Rollbacks) + 1
       /\ log[Last(Upgrades)].cmd = log[First(Upgrades)].cmd
  /\ Cardinality(Upgrades) = 2 =>
       LET r == Last(Upgrades) IN
         /\ Recovered
         /\ r = Len(log)
         /\ Rejects(TRUE, log[r].res) =>
              /\ pc = "threw"
              /\ state[Deploy] = "failed"
              /\ error = CommandFailed(log[r].cmd, log[r].res)

C1_Witness ==
  /\ Cardinality(Upgrades) = 2
  /\ Recovered
  /\ log[Last(Upgrades)].res.code # 0
  /\ pc = "threw"

\* C2: when the first upgrade failed and the parsed history is a non-empty
\* list whose first entry has the string "1" as revision, the purge command is
\* the recovery command and no rollback command is issued.
C2_FirstRevisionPurges ==
  \A json \in {JsonArray(h) : h \in Histories} :
    (HistoryParsedTo(json) /\ json.items[1] = Entry(StringRevision(1))) =>
      /\ Rollbacks = {}
      /\ pc \in {"purge", "retry", "returned", "threw"}
      /\ pc # "purge" =>
           /\ Cardinality(Purges) = 1
           /\ Last(Purges) = Last(HistoryQueries) + 1

C2_Witness ==
  /\ HistoryParsedTo(JsonArray(<<Entry(StringRevision(1))>>))
  /\ Purges # {}
  /\ pc = "returned"

\* C3: when the first upgrade failed and the parsed history is a non-empty
\* list whose first entry has a revision other than the string "1", the
\* rollback command is the recovery command, its target is the first entry's
\* revision, and no purge command is issued.
C3_OtherRevisionRollsBack ==
  \A json \in {JsonArray(h) : h \in Histories \cup {<<Entry(NoRevision)>>}} :
    (HistoryParsedTo(json) /\ json.items[1].revision # StringRevision(1)) =>
      /\ Purges = {}
      /\ pc \in {"rollback", "retry", "returned", "threw"}
      /\ \A i \in Rollbacks :
           /\ log[i].cmd.revision = json.items[1].revision
           /\ \A k \in 2..Len(json.items) :
                log[i].cmd.revision # json.items[k].revision
      /\ pc # "rollback" =>
           /\ Cardinality(Rollbacks) = 1
           /\ Last(Rollbacks) = Last(HistoryQueries) + 1

C3_Witness ==
  /\ HistoryParsedTo(JsonArray(History(3, 3, "string")))
  /\ \E i \in Rollbacks : log[i].cmd.revision = StringRevision(3)
  /\ pc = "returned"

\* C4: when the first upgrade failed and the history query returned an empty
\* list, the rollback command is the recovery command, with an undefined
\* revision, and no purge command is issued.
C4_EmptyHistoryRollsBack ==
  HistoryParsedTo(JsonArray(<<>>)) =>
    /\ Purges = {}
    /\ pc \in {"rollback", "retry", "returned", "threw"}
    /\ pc # "rollback" =>
         \E i \in Rollbacks : log[i].cmd.revision = NoRevision

\* C5: a task starts only when the asynchronous body of the task before it is
\* over: the dependency update is issued only after the copy started by
\* 'Preparing Che Helm Chart' has ended with the whole chart copied.
C5_TasksWaitForAsyncBody ==
  \A i \in DependencyUpdates :
    /\ state[Prepare] = "completed"
    /\ copy = "done"
    /\ copyEndedAt < i

\* C6: when the copy reports an error, the task 'Preparing Che Helm Chart'
\* fails with it, the run is rejected, and no dependency update or upgrade
\* command is issued after the error.
C6_CopyErrorFailsStaging ==
  copy = "error" =>
    /\ state[Prepare] = "failed"
    /\ error # NoError
    /\ \A i \in DependencyUpdates \cup Upgrades : i <= copyEndedAt

\* C7: when the first upgrade failed and the output of a successful history
\* query is no JSON, upgradeCheHelmChart throws the parse error: the query is
\* the last command of the run (no purge, no rollback, no retry), and the
\* output is not taken for an empty history.
C7_UnparsableHistoryAborts ==
  \A h \in HistoryQueries :
    (log[h].res.code = 0 /\ ~log[h].stdout.wellFormed) =>
      /\ pc = "threw"
      /\ state[Deploy] = "failed"
      /\ error = HistoryParseError
      /\ h = Len(log)
      /\ Purges = {} /\ Rollbacks = {}
      /\ Cardinality(Upgrades) = 1
      /\ jsonOutput # JsonArray(<<>>)

C7_Witness ==
  \E h \in HistoryQueries :
    /\ log[h].res.code = 0
    /\ ~log[h].stdout.wellFormed
    /\ FirstAttemptFailed
    /\ pc = "threw"

\* C8: when the first upgrade failed and the history query exits non-zero,
\* upgradeCheHelmChart throws an error made of the upgrade command and the
\* stderr of the first attempt: the query is the last command of the run
\* (no purge, no rollback, no retry).
C8_FailedHistoryQueryAborts ==
  \A h \in HistoryQueries :
    log[h].res.code # 0 =>
      LET a == First(Upgrades) IN
        /\ pc = "threw"
        /\ state[Deploy] = "failed"
        /\ error = Error("Unable to execute helm command", log[a].cmd,
                         StderrOf(log[a].cmd, log[a].res))
        /\ error.command = UpgradeCommand(flags, ctx)
        /\ h = Len(log)
        /\ Purges = {} /\ Rollbacks = {}
        /\ Cardinality(Upgrades) = 1

C8_Witness ==
  \E h \in HistoryQueries :
    /\ log[h].res.code # 0
    /\ FirstAttemptFailed
    /\ pc = "threw"

\* C9: when the first upgrade command exits 0, upgradeCheHelmChart returns
\* and the task completes; the run holds no history query, purge or rollback
\* and no second upgrade command.
C9_SuccessTakesNoRecovery ==
  (Upgrades # {} /\ log[First(Upgrades)].res.code = 0) =>
    /\ pc = "returned"
    /\ state[Deploy] = "completed"
    /\ error = NoError
    /\ Cardinality(Upgrades) = 1
    /\ First(Upgrades) = Len(log)
    /\ HistoryQueries = {} /\ Purges = {} /\ Rollbacks = {}

C9_Witness ==
  /\ Upgrades # {}
  /\ log[First(Upgrades)].res.code = 0
  /\ pc = "returned"

\* C10: a failed purge command is ignored (the retry is the next command and
\* no error comes from the purge); a failed rollback command ends
\* upgradeCheHelmChart with its failure, and the retry is not issued.
C10_PurgeSuppressedRollbackPropagates ==
  /\ \A p \in Purges :
       log[p].res.code # 0 =>
         /\ pc \in {"retry", "returned", "threw"}
         /\ error.command # log[p].cmd
         /\ pc # "retry" => (p + 1) \in Upgrades
  /\ \A r \in Rollbacks :
       log[r].res.code # 0 =>
         /\ pc = "threw"
         /\ state[Deploy] = "failed"
         /\ error = CommandFailed(log[r].cmd, log[r].res)
         /\ r = Len(log)
         /\ Cardinality(Upgrades) = 1

C10_Witness ==
  /\ \E p \in Purges : log[p].res.code # 0 /\ (p + 1) \in Upgrades
  /\ pc = "returned"

-----------------------------------------------------------------------------
\* The task that issues a command or lookup.
TaskOf(cmd) ==
  CASE cmd.kind \in {"kh.secretExist", "kh.getSecret"} ->
         IndexOf("Check for TLS secret prerequisites")
    [] cmd.kind = "kh.apiVersionExist" -> IndexOf("Check for cert-manager")
    [] cmd.kind \in {"kubectl get", "kubectl create", "helm init"} ->
         IndexOf(CHOOSE t \in ResourceTitles : ResourceOf(t) = cmd.name)
    [] cmd.kind = "kubectl apply" -> IndexOf("Create Tiller RBAC")
    [] cmd.kind = "helm dependencies update" ->
         IndexOf("Updating Helm Chart dependencies")
    [] OTHER -> Deploy

\* What Listr has made of a task it is past.
Passed(i) == state[i] = (IF Enabled(Titles[i]) THEN "completed" ELSE "skipped")

InDeclaredOrder ==
  /\ \A i \in DOMAIN Titles :
       /\ i < step => Passed(i)
       /\ i > step => state[i] = "pending"
       /\ i = step => state[i] \in {"pending", "failed"}
       /\ state[i] = "failed" <=> (i = step /\ error # NoError)
  /\ \A i \in DOMAIN log :
       /\ TaskOf(log[i].cmd) <= step
       /\ Enabled(Titles[TaskOf(log[i].cmd)])
       /\ \A j \in DOMAIN log : i < j => TaskOf(log[i].cmd) <= TaskOf(log[j].cmd)
  /\ \A u \in Upgrades : \A i \in 1..(Deploy - 1) : Passed(i)

\* C11: the tasks run in declared order, each at most once (a task that is
\* completed, failed or skipped keeps that state and Listr never steps back),
\* and the first failed task ends the run: no task state changes and no
\* command is issued after it, so the upgrade command is only issued with
\* every enabled task before it completed.
C11_InOrderFailFast ==
  [][ /\ step' >= step
      /\ \A i \in DOMAIN Titles : state[i] # "pending" => state'[i] = state[i]
      /\ error # NoError => (log' = log /\ state' = state /\ error' = error)
      /\ InDeclaredOrder' ]_vars

C11_Witness ==
  /\ state[IndexOf("Create Tiller RBAC")] = "failed"
  /\ state[IndexOf("Create Tiller Role Binding")] = "completed"
  /\ state[Deploy] = "pending"
  /\ flags.tls

\* C13: with the TLS flag off, the two TLS tasks never run: no secret lookup,
\* no API group lookup, no error from them, and ctx.tlsEmail is never written.
C13_TlsTasksOffWithoutFlag ==
  ~flags.tls =>
    /\ \A i \in DOMAIN log :
         log[i].cmd.kind \notin {"kh.secretExist", "kh.getSecret", "kh.apiVersionExist"}
    /\ \A t \in {"Check for TLS secret prerequisites", "Check for cert-manager"} :
         state[IndexOf(t)] \in {"pending", "skipped"}
    /\ error.kind \notin {"che-tls secret does not exist", "no ACME_EMAIL field",
                          "cert-manager API has not been found"}
    /\ ctx.tlsEmail = Undefined

C13_Witness ==
  /\ ~flags.tls
  /\ state[IndexOf("Check for TLS secret prerequisites")] = "skipped"
  /\ state[IndexOf("Check for cert-manager")] = "skipped"
  /\ Upgrades # {}

Gets(title) == {i \in DOMAIN log : log[i].cmd = Cmd("kubectl get", ResourceOf(title))}
Creates(title) == {i \in DOMAIN log : log[i].cmd = CreateCommand(title)}

\* C12: for each of the three resources, the existence check never fails the
\* task and says "exists" exactly when kubectl get exits 0: then the task
\* completes with no create command.  Otherwise the create command is the next
\* command, and the task fails exactly when the create command fails.
C12_CheckThenCreate ==
  \A title \in ResourceTitles :
    LET t == IndexOf(title)
        awaitingCreate == step = t /\ found = "no" /\ state[t] = "pending"
    IN
      /\ Cardinality(Gets(title)) <= 1
      /\ Cardinality(Creates(title)) <= 1
      /\ state[t] \in {"completed", "failed"} => Gets(title) # {}
      /\ \A g \in Gets(title) :
           /\ log[g].res.code = 0 =>
                (Creates(title) = {} /\ state[t] = "completed")
           /\ log[g].res.code # 0 =>
                /\ state[t] # "completed" \/ Creates(title) # {}
                /\ Creates(title) = {} <=> awaitingCreate
                /\ Creates(title) \subseteq {g + 1}
      /\ \A c \in Creates(title) :
           /\ Gets(title) # {}
           /\ IF Rejects(TRUE, log[c].res)
              THEN state[t] = "failed" /\ error = CommandFailed(log[c].cmd, log[c].res)
              ELSE state[t] = "completed"
      /\ state[t] = "failed" => Creates(title) # {}

C12_Witness ==
  /\ \E g \in Gets("Create Tiller Role Binding") : log[g].res.code = 0
  /\ Creates("Create Tiller Role Binding") = {}
  /\ \E c \in Creates("Create Tiller Service Account") : log[c].res.code # 0
  /\ state[IndexOf("Create Tiller Service Account")] = "failed"

TlsSecret == IndexOf("Check for TLS secret prerequisites")

\* C14: with the TLS flag on, the e-mail in every issued upgrade command is
\* the one the TLS secret task wrote into ctx earlier in the run (the task
\* completed after a getSecret lookup that found the field), and it is
\* defined; the deployment task is never reached with ctx.tlsEmail unset.
C14_TlsEmailFromContext ==
  flags.tls =>
    /\ step >= Deploy => (ctx.tlsEmail \in Emails /\ state[TlsSecret] = "completed")
    /\ ctx.tlsEmail # Undefined =>
         \E i \in DOMAIN log : log[i].cmd.kind = "kh.getSecret" /\ log[i].res = Ok
    /\ \A u \in Upgrades :
         /\ Len(log[u].cmd.setOptions) = 2
         /\ log[u].cmd.setOptions[2] = ctx.tlsEmail
         /\ log[u].cmd.setOptions[2] \in Emails
         /\ \E i \in 1..(u - 1) : log[i].cmd.kind = "kh.getSecret" /\ log[i].res = Ok

C14_Witness ==
  /\ flags.tls
  /\ Cardinality(Upgrades) = 2
  /\ log[Last(Upgrades)].cmd.setOptions[2] = "admin@example.org"

\* C15: in every issued upgrade command the multi-user values file is there
\* exactly when flags.multiuser is set, the TLS values file and the two TLS
\* overrides (cheDomain, tls.email) exactly when flags.tls is set, each group
\* whatever the other flag; the retry is the same command as the first attempt.
C15_FlagGroups ==
  /\ \A u \in Upgrades :
       LET c == log[u].cmd IN
         /\ c.multiUserFlag = (IF flags.multiuser THEN "values/multi-user.yaml" ELSE "")
         /\ c.tlsFlag = (IF flags.tls THEN "values/tls.yaml" ELSE "")
         /\ c.setOptions # <<>> <=> flags.tls
         /\ flags.tls => (Len(c.setOptions) = 2 /\ c.setOptions[1] = flags.domain)
         /\ c.kind = "helm upgrade --install"
         /\ c.destDir = DestDir
  /\ \A u, v \in Upgrades : log[u].cmd = log[v].cmd

C15_Witness ==
  /\ flags.multiuser
  /\ ~flags.tls
  /\ Cardinality(Upgrades) = 2
  /\ log[First(Upgrades)].cmd.multiUserFlag # ""
  /\ log[Last(Upgrades)].cmd.tlsFlag = ""

\* C18: the history query, the rollback and the purge name the release that
\* the upgrade command installs or upgrades.
C18_RecoveryNamesTheRelease ==
  \A i \in HistoryQueries \cup Rollbacks \cup Purges :
    log[i].cmd.name = log[First(Upgrades)].cmd.name

\* C19: when the first entry of the parsed history carries revision 1, as the
\* string "1" or as the number 1, the purge command is the recovery command
\* and no rollback to revision 1 is ever issued.
C19_FirstRevisionNeverRolledBack ==
  /\ \A r \in Rollbacks : log[r].cmd.revision.n # 1
  /\ \A json \in {JsonArray(h) : h \in Histories} :
       (HistoryParsedTo(json) /\ json.items[1].revision.n = 1) =>
         /\ Rollbacks = {}
         /\ pc # "purge" => Purges # {}

-----------------------------------------------------------------------------
\* This invocation issues the create command of a task in the step.
IssuesCreate(title) ==
  /\ Len(log') = Len(log) + 1
  /\ log'[Len(log')].cmd = CreateCommand(title)

PeerCreates(title) ==
  {i \in DOMAIN peer.log : peer.log[i].cmd = CreateCommand(title)}

PeerGets(title) ==
  {i \in DOMAIN peer.log : peer.log[i].cmd = Cmd("kubectl get", ResourceOf(title))}

====
